---- MODULE Spec2Model ----
(***************************************************************************)
(* Dispatch pipeline of the notification system:                           *)
(*   gateway   api_gateway/views.py  NotificationAPIView.post              *)
(*   store     core/redis_client.py  check_and_set_idempotency_key         *)
(*   publisher core/rabbitmq_publisher.py  publish_notification            *)
(*   workers   email_service/consumers/email_consumer.py  EmailConsumer    *)
(*             push_service/consumers/push_consumer.py    PushConsumer     *)
(* The broker (RabbitMQ) is modelled by its queues, the unacknowledged     *)
(* deliveries of every consumer and the dead-letter queues.                *)
(***************************************************************************)
EXTENDS Integers, Sequences, FiniteSets, TLC

\* ------------------------------------------------------------------ bounds
MaxCalls == 2
NumRequestIds == 1
NumEmailWorkers == 2
MaxDeliveries == 3
\* circuit breaker: constructor arguments, clock range, cap of failure_count
failure_threshold == 2
recovery_timeout == 2
MaxTime == 7
MaxFailureCount == 4
NumCallers == 2
\* retry wrapper: decorator arguments (max_backoff in tenths of a second),
\* failures the wrapped function may have in store before it succeeds
retries == 3
max_backoff == 30
MaxFailing == 5
\* status records: how far the clock runs while statuses are written
MaxStatusTime == 2
\* rendering: pieces a template is put together from, keys of a dict
MaxPieces == 2
MaxVariables == 2

Calls == 1..MaxCalls
RequestIds == 1..NumRequestIds
NoRequestId == 0
\* NumEmailWorkers competing email workers and one push worker
Workers == 1..(NumEmailWorkers + 1)
Types == {"email", "push"}

\* ------------------------------------------------------- program constants
\* basic_qos(prefetch_count=1)
PrefetchTwo == 1 + 1
prefetch_count == 1

HTTP_200_OK == 200
HTTP_202_ACCEPTED == 202
HTTP_400_BAD_REQUEST == 400
HTTP_404_NOT_FOUND == 404
HTTP_500_INTERNAL_SERVER_ERROR == 500
NoResponse == 0
NoAttempt == [msg |-> 0, redelivered |-> FALSE, outcome |-> "none", answer |-> "none"]

VARIABLES
    redis_client,   \* TRUE: the client was initialised; FALSE: redis_client is None
    idem,           \* idempotency key -> "absent" | "set" (no expiry yet) | "ttl"
    expired,        \* key -> its record has expired at least once (history)
    call,           \* gateway request -> [pc, request_id, notification_type, resp]
    published,      \* payloads handed to producer.publish that returned (history)
    dropped,        \* payloads the exchange could route to no queue (history)
    queueDeclared,  \* type -> working queue and DLQ declared and bound
    queue,          \* type -> working queue, sequence of [msg, redelivered]
    dlq,            \* type -> dead-letter queue, sequence of msg
    wstate,         \* worker -> "down" | "consuming"
    unacked,        \* worker -> deliveries handed to it and not yet answered
    acked,          \* messages acknowledged (history)
    deliveries,     \* message -> number of process_message invocations (history)
    last,           \* the run of process_message the latest step finished, if any
    state,              \* CircuitBreaker.state
    failure_count,      \* CircuitBreaker.failure_count
    last_failure_time,  \* CircuitBreaker.last_failure_time
    now,                \* time.time()
    inflight,           \* caller -> [pc, current_time] of its call of wrapper
    streak,             \* failures of the wrapped function since its last success (history)
    cbevent,            \* what the latest step did to the breaker
    retry,              \* one call of retry_with_backoff's wrapper
    provider,           \* the provider calls of one worker's delivery step (history)
    setup,              \* worker -> number of setup_queues calls it has made
    status_store,       \* notification:{type}:{id} -> the hash stored, if any
    status_event,       \* the latest call of NotificationStatusView and its response
    posted,             \* key -> the update_status calls since the key was last absent (history)
    render              \* one call of a rendering function: its arguments, loop position, result

pipelineVars == <<redis_client, idem, expired, call, published, dropped,
                  queueDeclared, queue, dlq, wstate, unacked, acked, deliveries,
                  last>>
breakerVars == <<state, failure_count, last_failure_time, now, inflight, streak,
                 cbevent>>
serviceVars == <<provider, setup, status_store, status_event, posted>>
libraryVars == <<breakerVars, retry, serviceVars, render>>

vars == <<pipelineVars, libraryVars>>

gatewayVars == <<redis_client, idem, expired, call, published, dropped>>
workerVars == <<wstate, unacked, acked, deliveries>>

\* ------------------------------------------------------------------ helpers
\* str(uuid.uuid4()): an id no caller supplies and no other request gets
Uuid(c) == NumRequestIds + c

Keys == 1..(NumRequestIds + MaxCalls)

\* request_id = data.get('request_id') or str(uuid.uuid4())
AssignRequestId(c, rid) == IF rid = NoRequestId THEN Uuid(c) ELSE rid

WorkerType(w) == IF w <= NumEmailWorkers THEN "email" ELSE "push"

\* history counters saturate at MaxDeliveries so that the state space is finite
Bump(n) == IF n < MaxDeliveries THEN n + 1 ELSE n

\* the deliveries of a closed channel go back to the head of the queue,
\* marked redelivered
RequeuedNowhere(ds) == <<>>
Requeued(ds) == [i \in 1..Len(ds) |-> [msg |-> ds[i].msg, redelivered |-> TRUE]]

\* ---------------------------------------------------------- circuit breaker
Callers == 1..NumCallers

\* the breaker's fields, as a step found them
Snapshot == [state |-> state, failure_count |-> failure_count,
             last_failure_time |-> last_failure_time]

\* CircuitBreaker.__init__
BreakerInit ==
    /\ state = "CLOSED"
    /\ failure_count = 0
    /\ last_failure_time = 0
    /\ now = 0
    /\ inflight = [p \in Callers |-> [pc |-> "idle", current_time |-> 0]]
    /\ streak = 0
    /\ cbevent = [kind |-> "none", before |-> Snapshot, at |-> 0]

\* ------------------------------------------------------------ retry wrapper
\* seconds are counted in tenths, so that the jitter of at most a tenth of
\* the delay is a whole number
backoff_in_seconds == 10

NoRetry == [pc |-> "idle", failing |-> 0, then |-> "value", retry_count |-> 0,
            delay |-> 0, invoked |-> 0, slept |-> <<>>, error |-> 0]

RetryInit == retry = NoRetry

\* ------------------------------------------------------- delivery provider
\* the provider calls of one worker's delivery step: failures in a row, the
\* time of the latest one, and what the latest delivery step found and did
NoProvider == [failures |-> 0, failed_at |-> 0, invoked |-> FALSE,
               before |-> [failures |-> 0, failed_at |-> 0], at |-> 0]

\* ------------------------------------------------------------ status store
\* notification_id of a request; "" when the request has none
StatusIds == {"n-1"}
NoNotificationId == ""
StatusKeys == Types \X StatusIds

\* NotificationStatusSerializer: status choices; timestamp and error optional
StatusChoices == {"delivered", "pending", "failed"}
NoTimestamp == 0 - 1
NoError == "None"
NoRecord == [status |-> "None", timestamp |-> NoTimestamp, error |-> NoError]
NoStatusEvent == [op |-> "none", notification_type |-> "email",
                  notification_id |-> NoNotificationId, code |-> NoResponse,
                  data |-> NoRecord]
NoPosted == [count |-> 0, latest |-> NoRecord, confirmed |-> NoRecord]

ServiceInit ==
    /\ provider = NoProvider
    /\ setup = [w \in Workers |-> 0]
    /\ status_store = [k \in StatusKeys |-> NoRecord]
    /\ status_event = NoStatusEvent
    /\ posted = [k \in StatusKeys |-> NoPosted]

\* ---------------------------------------------------------------- rendering
\* A text is a sequence of characters; a key and a word that holds no brace
\* count as one character.  A dict is the sequence of its items in
\* iteration (insertion) order
NoRender == [pc |-> "idle", fn |-> "none", content |-> <<>>, data |-> <<>>,
             items |-> <<>>, rest |-> <<>>, result |-> <<>>]

RenderInit == render = NoRender

\* --------------------------------------------------------------------- Init
Init ==
    /\ BreakerInit
    /\ RetryInit
    /\ ServiceInit
    /\ RenderInit
    /\ redis_client \in BOOLEAN
    /\ idem = [k \in Keys |-> "absent"]
    /\ expired = [k \in Keys |-> FALSE]
    /\ call = [c \in Calls |-> [pc |-> "idle", supplied |-> NoRequestId,
                                request_id |-> NoRequestId,
                                notification_type |-> "email", resp |-> NoResponse]]
    /\ published = {}
    /\ dropped = {}
    /\ queueDeclared = [t \in Types |-> FALSE]
    /\ queue = [t \in Types |-> <<>>]
    /\ dlq = [t \in Types |-> <<>>]
    /\ wstate = [w \in Workers |-> "down"]
    /\ unacked = [w \in Workers |-> <<>>]
    /\ acked = {}
    /\ deliveries = [c \in Calls |-> 0]
    /\ last = NoAttempt

\* ------------------------------------------------------------------ gateway
\* the store after a rejected request: post returns 400 before it reaches
\* the idempotency check, so the request_id of the request stays unclaimed
KeyClaimed(rid) ==
    IF redis_client /\ rid # NoRequestId THEN [idem EXCEPT ![rid] = "ttl"] ELSE idem
KeyAfterRejection(rid) == idem

\* post, step 1: validation and request_id assignment (views.py 56-67)
Receive(c, rid, t, valid) ==
    /\ call[c].pc = "idle"
    /\ IF c = 1 THEN TRUE ELSE call[c - 1].pc # "idle"
    /\ IF valid
         THEN call' = [call EXCEPT ![c] = [pc |-> "check", supplied |-> rid,
                          request_id |-> AssignRequestId(c, rid),
                          notification_type |-> t, resp |-> NoResponse]]
         ELSE call' = [call EXCEPT ![c] = [pc |-> "done",
                          supplied |-> rid, request_id |-> NoRequestId,
                          notification_type |-> "email",
                          resp |-> HTTP_400_BAD_REQUEST]]
    /\ idem' = IF valid THEN idem ELSE KeyAfterRejection(rid)
    /\ UNCHANGED <<redis_client, expired, published, dropped,
                   queueDeclared, queue, dlq>>
    /\ UNCHANGED workerVars
    /\ last' = NoAttempt
    /\ UNCHANGED libraryVars

\* check_and_set_idempotency_key when redis_client is None: every key is new
WithoutClientDuplicate == FALSE
WithoutClient == TRUE

\* redis_client.setnx(key, "processed"), or the answer without a client
SetnxAlwaysNew(k) == TRUE
SetnxIsNew(k) == IF redis_client THEN idem[k] = "absent" ELSE WithoutClient


\* the store after a SETNX that found the key: expire is called only for a
\* new key, so value and remaining expiry stay as they are
KeyRefreshed(k) == [idem EXCEPT ![k] = "ttl"]
KeyAfterDuplicate(k) == idem

\* post, step 2: check_and_set_idempotency_key up to the SETNX round trip
CheckAndSet(c) ==
    /\ call[c].pc = "check"
    /\ LET k == call[c].request_id IN
       IF SetnxIsNew(k)
         THEN /\ idem' = IF redis_client THEN [idem EXCEPT ![k] = "set"] ELSE idem
              /\ call' = [call EXCEPT ![c].pc =
                              IF redis_client THEN "expire" ELSE "publish"]
         ELSE /\ idem' = KeyAfterDuplicate(k)
              /\ call' = [call EXCEPT ![c].pc = "done", ![c].resp = HTTP_200_OK]
    /\ UNCHANGED <<redis_client, expired, published, dropped,
                   queueDeclared, queue, dlq>>
    /\ UNCHANGED workerVars
    /\ last' = NoAttempt
    /\ UNCHANGED libraryVars

\* redis_client.expire(key, expiry_seconds), the second round trip
SetExpiry(c) ==
    /\ call[c].pc = "expire"
    /\ LET k == call[c].request_id IN
       idem' = [idem EXCEPT ![k] = IF idem[k] = "absent" THEN "absent" ELSE "ttl"]
    /\ call' = [call EXCEPT ![c].pc = "publish"]
    /\ UNCHANGED <<redis_client, expired, published, dropped,
                   queueDeclared, queue, dlq>>
    /\ UNCHANGED workerVars
    /\ last' = NoAttempt
    /\ UNCHANGED libraryVars

\* the store drops a key whose expiry has passed
KeyExpires(k) ==
    /\ idem[k] = "ttl"
    /\ idem' = [idem EXCEPT ![k] = "absent"]
    /\ expired' = [expired EXCEPT ![k] = TRUE]
    /\ UNCHANGED <<redis_client, call, published, dropped,
                   queueDeclared, queue, dlq>>
    /\ UNCHANGED workerVars
    /\ last' = NoAttempt
    /\ UNCHANGED libraryVars

\* the gateway process handling call c is killed between two statements of
\* post; the request gets no answer
Interrupt(c) ==
    /\ call[c].pc \in {"check", "expire", "publish"}
    /\ call' = [call EXCEPT ![c].pc = "killed"]
    /\ UNCHANGED <<redis_client, idem, expired, published, dropped,
                   queueDeclared, queue, dlq>>
    /\ UNCHANGED workerVars
    /\ last' = NoAttempt
    /\ UNCHANGED libraryVars

\* message_payload of post; msg identifies the publish
RawPayload(c) == [msg |-> c, request_id |-> call[c].supplied,
                  routing_key |-> call[c].notification_type]
MessagePayload(c) == [msg |-> c, request_id |-> call[c].request_id,
                      routing_key |-> call[c].notification_type]

\* the store after a failed publish: post leaves the key as it is
KeyReleased(k) == [idem EXCEPT ![k] = "absent"]
KeyAfterPublishFailure(k) == idem

\* post, steps 3-5: publish_notification and the final response
Publish(c, ok) ==
    /\ call[c].pc = "publish"
    /\ LET m == MessagePayload(c)
           t == m.routing_key
       IN IF ok
            THEN /\ published' = published \cup {m}
                 /\ IF queueDeclared[t]
                      THEN /\ queue' = [queue EXCEPT ![t] =
                                  Append(@, [msg |-> m.msg, redelivered |-> FALSE])]
                           /\ dropped' = dropped
                      ELSE /\ queue' = queue
                           /\ dropped' = dropped \cup {m.msg}
                 /\ idem' = idem
                 /\ call' = [call EXCEPT ![c].pc = "done",
                                         ![c].resp = HTTP_202_ACCEPTED]
            ELSE /\ UNCHANGED <<published, dropped, queue>>
                 /\ idem' = KeyAfterPublishFailure(call[c].request_id)
                 /\ call' = [call EXCEPT ![c].pc = "done",
                                         ![c].resp = HTTP_500_INTERNAL_SERVER_ERROR]
    /\ UNCHANGED <<redis_client, expired, queueDeclared, dlq>>
    /\ UNCHANGED workerVars
    /\ last' = NoAttempt
    /\ UNCHANGED libraryVars

\* ------------------------------------------------------------------ workers
\* __init__ and setup_queues: exchanges, DLQ, working queue, qos, consume.
\* w is a slot for a worker process; a new process takes the lowest free slot
\* of its type (processes that are down hold no state and are interchangeable)
WorkerStart(w) ==
    /\ wstate[w] = "down"
    /\ \A v \in Workers :
          (WorkerType(v) = WorkerType(w) /\ v < w) => wstate[v] # "down"
    /\ wstate' = [wstate EXCEPT ![w] = "consuming"]
    /\ queueDeclared' = [queueDeclared EXCEPT ![WorkerType(w)] = TRUE]
    /\ UNCHANGED <<unacked, acked, deliveries, queue, dlq>>
    /\ last' = NoAttempt
    /\ UNCHANGED libraryVars
    /\ UNCHANGED gatewayVars

\* the broker hands the head of the queue to a consumer with spare prefetch
BrokerDeliver(w) ==
    /\ wstate[w] = "consuming"
    /\ Len(unacked[w]) < prefetch_count
    /\ LET t == WorkerType(w) IN
       /\ queue[t] # <<>>
       /\ unacked' = [unacked EXCEPT ![w] = Append(@, Head(queue[t]))]
       /\ queue' = [queue EXCEPT ![t] = Tail(@)]
       /\ deliveries' = [deliveries EXCEPT ![Head(queue[t]).msg] = Bump(@)]
    /\ UNCHANGED <<wstate, acked, queueDeclared, dlq>>
    /\ last' = NoAttempt
    /\ UNCHANGED libraryVars
    /\ UNCHANGED gatewayVars

\* what one run of process_message meets
Outcomes == {"ok", "parse_error", "user_fetch_failed", "no_address",
             "template_fetch_failed", "template_mismatch",
             "provider_failed", "ack_failed"}

\* the user record says the user does not want this channel and every step
\* succeeds: the consumers never read the preference
PreferenceOutcomes == {"opted_out"}

\* the steps of the try block up to the point where the outcome is decided
HandlerTrace(o) ==
    CASE o = "parse_error" -> <<"parse_raises">>
      [] o = "user_fetch_failed" -> <<"parse", "fetch_user_raises">>
      [] o = "no_address" -> <<"parse", "fetch_user", "raise">>
      [] o = "template_fetch_failed" ->
            <<"parse", "fetch_user", "fetch_template_raises">>
      [] o = "template_mismatch" ->
            <<"parse", "fetch_user", "fetch_template", "raise">>
      [] o = "provider_failed" ->
            <<"parse", "fetch_user", "fetch_template", "render", "send_raises">>
      [] o = "ack_failed" ->
            <<"parse", "fetch_user", "fetch_template", "render", "send",
              "basic_ack_raises">>
      [] OTHER ->
            <<"parse", "fetch_user", "fetch_template", "render", "send",
              "basic_ack">>

ProviderInvoked(o) ==
    \E i \in 1..Len(HandlerTrace(o)) : HandlerTrace(o)[i] \in {"send", "send_raises"}

\* The answer the handler gives the broker.  The except block reads
\* method.delivery_info; method is the pika.spec.Basic.Deliver frame of the
\* delivery (fields consumer_tag, delivery_tag, redelivered, exchange,
\* routing_key), which has no attribute delivery_info: the read raises
\* AttributeError before either basic_nack is reached, so a failed run
\* answers nothing.
AnswerAckAlways(o, redelivered) == "ack"
AnswerFiltered(o, redelivered) ==
    IF o \in {"ok", "opted_out", "no_address"} THEN "ack" ELSE "none"
AnswerNackNoRequeue(o, redelivered) ==
    IF o \in {"ok", "opted_out"} THEN "ack" ELSE "nack_no_requeue"
Answer(o, redelivered) ==
    IF HandlerTrace(o)[Len(HandlerTrace(o))] = "basic_ack" THEN "ack" ELSE "none"

\* the status store after process_message: the consumers hold no store
\* client and call no status endpoint
StatusWrittenByWorker(t, o) ==
    [status_store EXCEPT ![<<t, "n-1">>] =
        [status |-> IF o = "ok" THEN "delivered" ELSE "failed",
         timestamp |-> now, error |-> NoError]]
StatusAfterProcessing(t, o) == status_store

\* process_message for the oldest unanswered delivery of worker w.  The
\* broker drops an acked delivery, puts one nacked with requeue back at the
\* head of its queue and routes one nacked without requeue through
\* notifications.dlx to the dead-letter queue.  An exception leaving the
\* callback ends start_consuming, whose finally block closes the connection:
\* the broker requeues what the worker had unacked
ProcessMessage(w, o) ==
    /\ wstate[w] = "consuming"
    /\ unacked[w] # <<>>
    /\ LET d == Head(unacked[w])
           t == WorkerType(w)
           a == Answer(o, d.redelivered)
       IN /\ last' = [msg |-> d.msg, redelivered |-> d.redelivered,
                      outcome |-> o, answer |-> a]
          /\ CASE a = "ack" ->
                    /\ unacked' = [unacked EXCEPT ![w] = Tail(@)]
                    /\ acked' = acked \cup {d.msg}
                    /\ UNCHANGED <<queue, dlq, wstate>>
               [] a = "nack_requeue" ->
                    /\ unacked' = [unacked EXCEPT ![w] = Tail(@)]
                    /\ queue' = [queue EXCEPT ![t] = Requeued(<<d>>) \o @]
                    /\ UNCHANGED <<acked, dlq, wstate>>
               [] a = "nack_no_requeue" ->
                    /\ unacked' = [unacked EXCEPT ![w] = Tail(@)]
                    /\ dlq' = [dlq EXCEPT ![t] = Append(@, d.msg)]
                    /\ UNCHANGED <<acked, queue, wstate>>
               [] OTHER ->
                    /\ unacked' = [unacked EXCEPT ![w] = <<>>]
                    /\ queue' = [queue EXCEPT ![t] = Requeued(unacked[w]) \o @]
                    /\ wstate' = [wstate EXCEPT ![w] = "down"]
                    /\ UNCHANGED <<acked, dlq>>
    /\ status_store' = StatusAfterProcessing(WorkerType(w), o)
    /\ UNCHANGED <<deliveries, queueDeclared>>
    /\ UNCHANGED <<breakerVars, retry, render>>
    /\ UNCHANGED <<provider, setup, status_event, posted>>
    /\ UNCHANGED gatewayVars

\* what counts as acknowledged after a shutdown: start_consuming sends no
\* ack for a delivery it gives up
AckedWithHeld(w) == acked \cup {unacked[w][i].msg : i \in 1..Len(unacked[w])}
AckedAfterShutdown(w) == acked

\* start_consuming, KeyboardInterrupt: the interrupt reaches worker w while it
\* waits or inside its callback, which does not catch it; stop_consuming
\* cancels the consumer and the finally block closes the connection, so the
\* broker requeues what the worker had unacked
Shutdown(w) ==
    /\ wstate[w] = "consuming"
    /\ wstate' = [wstate EXCEPT ![w] = "down"]
    /\ unacked' = [unacked EXCEPT ![w] = <<>>]
    /\ queue' = [queue EXCEPT ![WorkerType(w)] = Requeued(unacked[w]) \o @]
    /\ acked' = AckedAfterShutdown(w)
    /\ last' = IF unacked[w] = <<>> THEN NoAttempt
               ELSE [msg |-> Head(unacked[w]).msg,
                     redelivered |-> Head(unacked[w]).redelivered,
                     outcome |-> "interrupted", answer |-> "none"]
    /\ UNCHANGED <<deliveries, queueDeclared, dlq>>
    /\ UNCHANGED libraryVars
    /\ UNCHANGED gatewayVars

\* ---------------------------------------------------------- circuit breaker
\* time.time() advances
Tick ==
    /\ now < MaxTime
    /\ now' = now + 1
    /\ cbevent' = [kind |-> "tick", before |-> Snapshot, at |-> now]
    /\ UNCHANGED <<state, failure_count, last_failure_time, inflight, streak>>
    /\ UNCHANGED <<pipelineVars, retry, serviceVars, render>>

\* current_time - self.last_failure_time > self.recovery_timeout
TimeoutReached(current_time) == current_time - last_failure_time >= recovery_timeout
TimeoutPassed(current_time) == current_time - last_failure_time > recovery_timeout

\* exception classes, each with the classes an except clause can name to
\* catch it
Bases(cls) ==
    CASE cls = "ConnectionError" -> {"ConnectionError", "OSError", "Exception"}
      [] cls = "ValueError" -> {"ValueError", "Exception"}
      [] OTHER -> {"Exception"}

\* raise Exception("Circuit breaker is OPEN")
CircuitOpenSignal == "Exception"

\* what the functions of the repository raise: the consumers' fetches and
\* the push provider raise Exception(...), the task module's provider call
\* raises ConnectionError and ValueError
FunctionErrors == {"Exception", "ConnectionError", "ValueError"}

\* retry_with_backoff(..., exceptions=(Exception,))
RetryExceptions == {"Exception"}

\* wrapper, up to the call of func: an OPEN breaker whose timeout has passed
\* becomes HALF-OPEN, an OPEN breaker whose timeout has not passed raises
\* Exception("Circuit breaker is OPEN")
WrapperEnter(p) ==
    /\ inflight[p].pc = "idle"
    /\ LET current_time == now IN
       IF state = "OPEN" /\ ~TimeoutPassed(current_time)
         THEN /\ cbevent' = [kind |-> "rejected", before |-> Snapshot,
                             at |-> current_time]
              /\ UNCHANGED <<state, inflight>>
         ELSE /\ state' = IF state = "OPEN" THEN "HALF-OPEN" ELSE state
              /\ inflight' = [inflight EXCEPT ![p] =
                                 [pc |-> "running", current_time |-> current_time]]
              /\ cbevent' = [kind |-> "admitted", before |-> Snapshot,
                             at |-> current_time]
    /\ UNCHANGED <<failure_count, last_failure_time, now, streak>>
    /\ UNCHANGED <<pipelineVars, retry, serviceVars, render>>

\* CircuitBreaker.reset
ResetKeepsCount ==
    [state |-> "CLOSED", failure_count |-> failure_count, last_failure_time |-> 0]
reset == [state |-> "CLOSED", failure_count |-> 0, last_failure_time |-> 0]

\* self.failure_count >= self.failure_threshold and self.state != 'OPEN'
TripsLate(count) == count > failure_threshold /\ state # "OPEN"
Trips(count) == count >= failure_threshold /\ state # "OPEN"

\* wrapper, from the return of func: a success in HALF-OPEN resets the
\* breaker; a failure counts, stamps the time the call began and opens the
\* breaker at the threshold or from HALF-OPEN
WrapperReturn(p, ok) ==
    /\ inflight[p].pc = "running"
    /\ ok \/ failure_count < MaxFailureCount
    /\ IF ok
         THEN /\ IF state = "HALF-OPEN"
                   THEN /\ state' = reset.state
                        /\ failure_count' = reset.failure_count
                        /\ last_failure_time' = reset.last_failure_time
                   ELSE UNCHANGED <<state, failure_count, last_failure_time>>
              /\ streak' = 0
              /\ cbevent' = [kind |-> "success", before |-> Snapshot,
                             at |-> inflight[p].current_time]
         ELSE /\ failure_count' = failure_count + 1
              /\ last_failure_time' = inflight[p].current_time
              /\ state' = IF Trips(failure_count + 1) THEN "OPEN"
                          ELSE IF state = "HALF-OPEN" THEN "OPEN"
                          ELSE state
              /\ streak' = streak + 1
              /\ cbevent' = [kind |-> "failure", before |-> Snapshot,
                             at |-> inflight[p].current_time]
    /\ inflight' = [inflight EXCEPT ![p] = [pc |-> "idle", current_time |-> 0]]
    /\ UNCHANGED now
    /\ UNCHANGED <<pipelineVars, retry, serviceVars, render>>

\* ------------------------------------------------------------ retry wrapper
\* a call of wrapper begins; the wrapped function will raise a retryable
\* error on its first k invocations; its next invocation returns a value
\* (then = "value") or raises an error of a class outside the tuple
\* exceptions (then = "error"), and every later one returns a value
RetryStart(k, then) ==
    /\ retry.pc \in {"idle", "returned", "raised"}
    /\ retry' = [pc |-> "calling", failing |-> k, then |-> then,
                 retry_count |-> 0, delay |-> backoff_in_seconds,
                 invoked |-> 0, slept |-> <<>>, error |-> 0]
    /\ UNCHANGED <<pipelineVars, breakerVars, serviceVars, render>>

\* what invocation number n of the wrapped function does
Invocation(n) ==
    IF n <= retry.failing THEN "retryable"
    ELSE IF n = retry.failing + 1 /\ retry.then = "error" THEN "other"
    ELSE "value"

\* except exceptions as e
CatchesAll(kind) == kind # "value"
Catches(kind) == kind = "retryable"

\* if retry_count > retries: raise
ExhaustedEarly(retry_count) == retry_count >= retries
Exhausted(retry_count) == retry_count > retries

\* random.uniform(0, 0.1 * delay)
Jitters(delay) == 0..(delay \div 10)

\* min(delay + jitter, max_backoff)
SleepTimeUncapped(delay, jitter) == delay + jitter
SleepTime(delay, jitter) ==
    IF delay + jitter < max_backoff THEN delay + jitter ELSE max_backoff

\* one turn of the while loop: func is invoked; its value is returned, or an
\* error the except clause does not catch leaves the wrapper, or its error
\* is raised again when the retries are used up, or the wrapper goes to
\* sleep and doubles the delay
RetryInvoke ==
    /\ retry.pc = "calling"
    /\ LET n == retry.invoked + 1
           rc == retry.retry_count + 1
       IN IF Invocation(n) = "value"
            THEN retry' = [retry EXCEPT !.pc = "returned", !.invoked = n]
            ELSE IF ~Catches(Invocation(n))
                   THEN retry' = [retry EXCEPT !.pc = "raised", !.invoked = n,
                                               !.error = n]
            ELSE IF Exhausted(rc)
                   THEN retry' = [retry EXCEPT !.pc = "raised", !.invoked = n,
                                               !.retry_count = rc, !.error = n]
                   ELSE \E jitter \in Jitters(retry.delay) :
                           retry' = [retry EXCEPT
                                        !.pc = "sleeping", !.invoked = n,
                                        !.retry_count = rc,
                                        !.slept = Append(@, SleepTime(retry.delay, jitter)),
                                        !.delay = 2 * @]
    /\ UNCHANGED <<pipelineVars, breakerVars, serviceVars, render>>

\* time.sleep returns
RetryWake ==
    /\ retry.pc = "sleeping"
    /\ retry' = [retry EXCEPT !.pc = "calling"]
    /\ UNCHANGED <<pipelineVars, breakerVars, serviceVars, render>>

\* ------------------------------------------------- fetches of the handler
\* How often get_user_data / get_template_data is invoked in a run of
\* process_message in which every invocation raises.  EmailConsumer wraps
\* both calls in retry_with_backoff(retries=3, ...); PushConsumer imports the
\* decorator and calls both functions directly
FetchInvocations(t) == IF t = "email" THEN retries + 1 ELSE 1

\* ------------------------------------------------------- delivery provider
\* The delivery step of process_message: send_mail / _send_fcm_notification
\* is called directly.  Both consumers import circuit_breaker, neither
\* constructs or applies one, so the step reads no breaker state
DeliveryStep(ok) ==
    /\ ok \/ provider.failures < MaxFailureCount
    /\ provider' = [failures |-> IF ok THEN 0 ELSE provider.failures + 1,
                    failed_at |-> IF ok THEN provider.failed_at ELSE now,
                    invoked |-> TRUE,
                    before |-> [failures |-> provider.failures,
                                failed_at |-> provider.failed_at],
                    at |-> now]
    /\ UNCHANGED <<setup, status_store, status_event, posted>>
    /\ UNCHANGED <<pipelineVars, breakerVars, retry, render>>

\* ------------------------------------------------------------ setup_queues
QueueName(t) == IF t = "email" THEN "email.queue" ELSE "push.queue"
DlqName(t) == IF t = "email" THEN "email.dlq" ELSE "push.dlq"

\* one call on the channel; the fields a call does not have are "" or 0
ChannelCall(op, exchange, name, dlx, worker) ==
    [op |-> op, exchange |-> exchange, queue |-> name, dlx |-> dlx,
     worker |-> worker]

DeclareDirect == ChannelCall("exchange_declare", "notifications.direct", "", "", 0)
DeclareDlx == ChannelCall("exchange_declare", "notifications.dlx", "", "", 0)
DeclareDlq(t) == ChannelCall("queue_declare", "", DlqName(t), "", 0)
BindDlq(t) == ChannelCall("queue_bind", "notifications.dlx", DlqName(t), "", 0)
DeclareQueue(t) ==
    ChannelCall("queue_declare", "", QueueName(t), "notifications.dlx", 0)
BindQueue(t) == ChannelCall("queue_bind", "notifications.direct", QueueName(t), "", 0)
SetQos(w) == ChannelCall("basic_qos", "", "", "", w)
Consume(w) == ChannelCall("basic_consume", "", QueueName(WorkerType(w)), "", w)

\* the calls of setup_queues, in the order of the source
SetupStepsQueueFirst(w) ==
    LET t == WorkerType(w) IN
    <<DeclareDirect, DeclareQueue(t), DeclareDlx, DeclareDlq(t), BindDlq(t),
      BindQueue(t), SetQos(w), Consume(w)>>
SetupSteps(w) ==
    LET t == WorkerType(w) IN
    <<DeclareDirect, DeclareDlx, DeclareDlq(t), BindDlq(t), DeclareQueue(t),
      BindQueue(t), SetQos(w), Consume(w)>>

\* worker w makes the next call of its setup_queues
SetupStep(w) ==
    /\ setup[w] < Len(SetupSteps(w))
    /\ setup' = [setup EXCEPT ![w] = @ + 1]
    /\ UNCHANGED <<provider, status_store, status_event, posted>>
    /\ UNCHANGED <<pipelineVars, breakerVars, retry, render>>

\* the channel calls worker w has made so far
PerformedBy(w) == {SetupSteps(w)[i] : i \in 1..setup[w]}

\* ------------------------------------------------------------ status store
\* redis_client.hset(status_key, mapping=status_data): the client encodes
\* bytes, str, int and float and raises DataError for any other value
\* before a command is sent.  error_message is None when the request has no
\* error; a timestamp of the request is the datetime the serializer made of it
HsetNeverRaises(timestamp, error) == FALSE
HsetRaises(timestamp, error) == timestamp # NoTimestamp \/ error = NoError

\* status_data of NotificationStatusView.post
StatusData(st, timestamp, error) ==
    [status |-> st,
     timestamp |-> IF timestamp = NoTimestamp THEN now ELSE timestamp,
     error |-> error]

CountUpdate(n) == IF n < 2 THEN n + 1 ELSE n

\* NotificationStatusView.post: update_status.  The answer is 200 whether or
\* not there is a store to write to
UpdateStatus(t, id, st, timestamp, error) ==
    /\ IF t \notin Types \/ id = NoNotificationId \/ st \notin StatusChoices
         THEN /\ status_event' = [op |-> "update_status", notification_type |-> t,
                                  notification_id |-> id,
                                  code |-> HTTP_400_BAD_REQUEST, data |-> NoRecord]
              /\ UNCHANGED <<status_store, posted>>
         ELSE LET k == <<t, id>>
                  d == StatusData(st, timestamp, error)
              IN IF redis_client /\ HsetRaises(timestamp, error)
                   THEN /\ status_event' =
                              [op |-> "update_status", notification_type |-> t,
                               notification_id |-> id,
                               code |-> HTTP_500_INTERNAL_SERVER_ERROR,
                               data |-> NoRecord]
                        /\ status_store' = status_store
                        /\ posted' = [posted EXCEPT
                                         ![k].count = CountUpdate(@),
                                         ![k].latest = d]
                   ELSE /\ status_event' =
                              [op |-> "update_status", notification_type |-> t,
                               notification_id |-> id, code |-> HTTP_200_OK,
                               data |-> NoRecord]
                        /\ status_store' =
                              IF redis_client THEN [status_store EXCEPT ![k] = d]
                              ELSE status_store
                        /\ posted' = [posted EXCEPT
                                         ![k].count = CountUpdate(@),
                                         ![k].latest = d,
                                         ![k].confirmed = d]
    /\ UNCHANGED <<provider, setup>>
    /\ UNCHANGED <<pipelineVars, breakerVars, retry, render>>

\* NotificationStatusView.get: get_status
GetStatus(t, id) ==
    /\ LET k == <<t, id>>
           found == /\ redis_client
                    /\ k \in StatusKeys
                    /\ status_store[k] # NoRecord
       IN status_event' =
             [op |-> "get_status", notification_type |-> t, notification_id |-> id,
              code |-> IF id = NoNotificationId THEN HTTP_400_BAD_REQUEST
                       ELSE IF found THEN HTTP_200_OK ELSE HTTP_404_NOT_FOUND,
              data |-> IF id # NoNotificationId /\ found THEN status_store[k]
                       ELSE NoRecord]
    /\ UNCHANGED <<provider, setup, status_store, posted>>
    /\ UNCHANGED <<pipelineVars, breakerVars, retry, render>>

\* the store drops a status hash 86400 seconds after its latest write
StatusExpires(k) ==
    /\ status_store[k] # NoRecord
    /\ status_store' = [status_store EXCEPT ![k] = NoRecord]
    /\ posted' = [posted EXCEPT ![k] = NoPosted]
    /\ status_event' = [op |-> "expired", notification_type |-> k[1],
                        notification_id |-> k[2], code |-> NoResponse,
                        data |-> NoRecord]
    /\ UNCHANGED <<provider, setup>>
    /\ UNCHANGED <<pipelineVars, breakerVars, retry, render>>

\* ---------------------------------------------------------------- rendering
\* f'{{{{{key}}}}}'
Placeholder(key) == <<"{", "{", key, "}", "}">>

\* str.replace(old, new) for a non-empty old: the occurrences of old are
\* found from the left and do not overlap
RECURSIVE Replace(_, _, _)
Replace(text, old, new) ==
    IF Len(text) < Len(old) THEN text
    ELSE IF SubSeq(text, 1, Len(old)) = old
           THEN new \o Replace(SubSeq(text, Len(old) + 1, Len(text)), old, new)
           ELSE <<Head(text)>> \o Replace(Tail(text), old, new)

\* _substitute_variables: one replace per item, each applied to the result
\* of the one before
RECURSIVE substitute_variables(_, _)
substitute_variables(template_content, variables) ==
    IF variables = <<>> THEN template_content
    ELSE substitute_variables(
             Replace(template_content, Placeholder(Head(variables).key),
                     Head(variables).value),
             Tail(variables))

DictKeys(d) == {d[i].key : i \in 1..Len(d)}

\* user_info.get('first_name', '') + ' ' + user_info.get('last_name', '')
FullName(user_info) == <<user_info.first_name, " ", user_info.last_name>>

\* merged_variables = {'name': ..., **variables}: name comes first and takes
\* the value variables gives it, if any
VariablesOnly(user_info, variables) == variables
MergedVariables(user_info, variables) ==
    LET own == {i \in 1..Len(variables) : variables[i].key = "name"}
        others == SelectSeq(variables, LAMBDA item : item.key # "name")
    IN <<[key |-> "name",
          value |-> IF own = {} THEN FullName(user_info)
                    ELSE variables[CHOOSE i \in own : TRUE].value]>> \o others

\* the user record the worker fetched
UserInfo == [first_name |-> "Ann", last_name |-> "Lee"]

\* a call of _substitute_variables(content, data), of render_template(content,
\* data) of the task module, or of steps 4 and 5 of process_message for a
\* template content and the variables data of the message
RenderStart(fn, content, data) ==
    /\ render.pc = "idle"
    /\ LET items == IF fn = "process_message" THEN MergedVariables(UserInfo, data)
                    ELSE data
       IN render' = [pc |-> "loop", fn |-> fn, content |-> content, data |-> data,
                     items |-> items, rest |-> items, result |-> content]
    /\ UNCHANGED <<pipelineVars, breakerVars, retry, serviceVars>>

\* the text a loop iteration replaces in: every function works on its
\* result so far, render_template on its argument content
ReplacedIn(fn, content, result) == IF fn = "render_template" THEN content ELSE result

\* one iteration of the for loop
RenderStep ==
    /\ render.pc = "loop"
    /\ render.rest # <<>>
    /\ LET item == Head(render.rest) IN
       render' = [render EXCEPT
                     !.result = Replace(ReplacedIn(render.fn, render.content,
                                                   render.result),
                                        Placeholder(item.key), item.value),
                     !.rest = Tail(render.rest)]
    /\ UNCHANGED <<pipelineVars, breakerVars, retry, serviceVars>>

\* return result
RenderReturn ==
    /\ render.pc = "loop"
    /\ render.rest = <<>>
    /\ render' = [render EXCEPT !.pc = "returned"]
    /\ UNCHANGED <<pipelineVars, breakerVars, retry, serviceVars>>

\* --------------------------------------------------------------------- Next
Next ==
    \/ \E c \in Calls, rid \in RequestIds \cup {NoRequestId}, t \in Types,
          valid \in BOOLEAN : Receive(c, rid, t, valid)
    \/ \E c \in Calls : CheckAndSet(c)
    \/ \E c \in Calls : SetExpiry(c)
    \/ \E k \in Keys : KeyExpires(k)
    \/ \E c \in Calls, ok \in BOOLEAN : Publish(c, ok)
    \/ \E w \in Workers : WorkerStart(w)
    \/ \E w \in Workers : BrokerDeliver(w)
    \/ \E w \in Workers, o \in Outcomes \cup PreferenceOutcomes :
          ProcessMessage(w, o)

Spec == Init /\ [][Next]_vars

\* the intake path alone: requests, store and publisher (nothing a worker does
\* touches the store, the requests or the record of what was published)
GatewayNext ==
    \/ \E c \in Calls, rid \in RequestIds \cup {NoRequestId}, t \in Types,
          valid \in BOOLEAN : Receive(c, rid, t, valid)
    \/ \E c \in Calls : CheckAndSet(c)
    \/ \E c \in Calls : SetExpiry(c)
    \/ \E k \in Keys : KeyExpires(k)
    \/ \E c \in Calls, ok \in BOOLEAN : Publish(c, ok)

GatewaySpec == Init /\ [][GatewayNext]_vars

\* the gateway with processes that may die at any point of a request
InterruptNext ==
    \/ GatewayNext
    \/ \E c \in Calls : Interrupt(c)

InterruptSpec == Init /\ [][InterruptNext]_vars

\* one run of each kind the broker can tell apart: success, failure before
\* the provider is called, failure of the provider, failure of the ack
WorkerOutcomes == {"ok", "parse_error", "provider_failed", "ack_failed"}

\* the workers, fed by valid requests that arrive one at a time and carry no
\* request_id of their own (the workers read nothing of the gateway's state)
WorkerNext ==
    \/ \E c \in Calls, t \in Types :
          /\ \A d \in Calls : call[d].pc \in {"idle", "done"}
          /\ Receive(c, NoRequestId, t, TRUE)
    \/ \E c \in Calls : CheckAndSet(c)
    \/ \E c \in Calls : Publish(c, TRUE)
    \/ \E w \in Workers : WorkerStart(w)
    \/ \E w \in Workers : BrokerDeliver(w)
    \/ \E w \in Workers, o \in WorkerOutcomes : ProcessMessage(w, o)

WorkerInit == Init /\ redis_client = FALSE

WorkerSpec == WorkerInit /\ [][WorkerNext]_vars

\* the email workers, fed as above, with operators who stop them at any
\* moment; a run succeeds or fails in the provider
EmailWorkers == 1..NumEmailWorkers

ShutdownNext ==
    \/ \E c \in Calls :
          /\ \A d \in Calls : call[d].pc \in {"idle", "done"}
          /\ Receive(c, NoRequestId, "email", TRUE)
    \/ \E c \in Calls : CheckAndSet(c)
    \/ \E c \in Calls : Publish(c, TRUE)
    \/ \E w \in EmailWorkers : WorkerStart(w)
    \/ \E w \in EmailWorkers : BrokerDeliver(w)
    \/ \E w \in EmailWorkers, o \in {"ok", "provider_failed"} : ProcessMessage(w, o)
    \/ \E w \in EmailWorkers : Shutdown(w)

ShutdownSpec == WorkerInit /\ [][ShutdownNext]_vars

\* one message on its way through one worker process of its channel, with
\* every outcome a run of process_message can meet
HandlerWorkers == {1, NumEmailWorkers + 1}

HandlerNext ==
    \/ \E t \in Types : Receive(1, NoRequestId, t, TRUE)
    \/ CheckAndSet(1)
    \/ Publish(1, TRUE)
    \/ \E w \in HandlerWorkers : WorkerStart(w)
    \/ \E w \in HandlerWorkers : BrokerDeliver(w)
    \/ \E w \in HandlerWorkers, o \in Outcomes \cup PreferenceOutcomes :
          ProcessMessage(w, o)

HandlerSpec == WorkerInit /\ [][HandlerNext]_vars

\* one breaker used by one thread: a call begins when the previous one is over
BreakerNext ==
    \/ Tick
    \/ \E p \in Callers :
          /\ \A q \in Callers : inflight[q].pc = "idle"
          /\ WrapperEnter(p)
    \/ \E p \in Callers, ok \in BOOLEAN : WrapperReturn(p, ok)

BreakerSpec == WorkerInit /\ [][BreakerNext]_vars

\* one breaker shared by threads: a call may begin while others are running
SharedBreakerNext ==
    \/ Tick
    \/ \E p \in Callers : WrapperEnter(p)
    \/ \E p \in Callers, ok \in BOOLEAN : WrapperReturn(p, ok)

SharedBreakerSpec == WorkerInit /\ [][SharedBreakerNext]_vars

\* calls of a function wrapped by retry_with_backoff, one after the other
RetryNext ==
    \/ \E k \in 0..MaxFailing, then \in {"value", "error"} : RetryStart(k, then)
    \/ RetryInvoke
    \/ RetryWake

RetrySpec == WorkerInit /\ [][RetryNext]_vars

\* the delivery steps of one worker, one message after the other
ProviderNext ==
    \/ Tick
    \/ \E ok \in BOOLEAN : DeliveryStep(ok)

ProviderSpec == WorkerInit /\ [][ProviderNext]_vars

\* worker processes starting up side by side
SetupNext == \E w \in Workers : SetupStep(w)

SetupSpec == WorkerInit /\ [][SetupNext]_vars

\* callers of the status endpoint: statuses of email notifications, and of
\* "sms", a type update_status rejects
StatusTypes == {"email", "sms"}
ClientTimestamps == {0}
Errors == {"smtp timeout"}

StatusNext ==
    \/ now < MaxStatusTime /\ Tick
    \/ \E t \in StatusTypes, id \in StatusIds \cup {NoNotificationId},
          st \in StatusChoices \cup {"sent"},
          timestamp \in ClientTimestamps \cup {NoTimestamp},
          error \in Errors \cup {NoError} :
          UpdateStatus(t, id, st, timestamp, error)
    \/ \E t \in StatusTypes, id \in StatusIds \cup {NoNotificationId} :
          GetStatus(t, id)
    \/ \E k \in StatusKeys : StatusExpires(k)

StatusSpec == Init /\ [][StatusNext]_vars

\* valid requests for email notifications, an email worker that acks, dead-
\* letters or fails to answer them, and the callers of the status endpoint
TrackingNext ==
    \/ \E c \in Calls, rid \in RequestIds : Receive(c, rid, "email", TRUE)
    \/ \E c \in Calls : CheckAndSet(c)
    \/ \E c \in Calls : SetExpiry(c)
    \/ \E c \in Calls, ok \in BOOLEAN : Publish(c, ok)
    \/ WorkerStart(1)
    \/ BrokerDeliver(1)
    \/ \E o \in {"ok", "parse_error", "provider_failed"} : ProcessMessage(1, o)
    \/ \E error \in Errors \cup {NoError} :
          UpdateStatus("email", "n-1", "delivered", NoTimestamp, error)
    \/ GetStatus("email", "n-1")
    \/ StatusExpires(<<"email", "n-1">>)

TrackingSpec == Init /\ [][TrackingNext]_vars

\* the arguments of the rendering functions: templates put together from
\* placeholders and a word, dicts of up to MaxVariables items whose values
\* are a word or the placeholder of a key
TokenKeys == {"a", "b", "name"}
Pieces == {Placeholder(k) : k \in TokenKeys} \cup {<<"x">>}
Values == {<<"A">>, Placeholder("b")}

RECURSIVE Flatten(_)
Flatten(ps) == IF ps = <<>> THEN <<>> ELSE Head(ps) \o Flatten(Tail(ps))

Templates ==
    {Flatten(ps) : ps \in UNION {[1..n -> Pieces] : n \in 0..MaxPieces}}

Dicts ==
    UNION {{d \in [1..n -> [key : TokenKeys, value : Values]] :
               \A i, j \in 1..n : i # j => d[i].key # d[j].key} :
           n \in 0..MaxVariables}

RenderFunctions == {"_substitute_variables", "render_template", "process_message"}

RenderNext ==
    \/ /\ render.pc = "idle"
       /\ \E fn \in RenderFunctions, content \in Templates, data \in Dicts :
             RenderStart(fn, content, data)
    \/ RenderStep
    \/ RenderReturn

RenderSpec == WorkerInit /\ [][RenderNext]_vars

\* the broker hands a waiting message to a consumer with spare prefetch, a
\* started callback runs to its end, and a worker process that is down is
\* started again
FairWorkerSpec ==
    /\ WorkerSpec
    /\ \A w \in Workers :
          /\ WF_vars(WorkerStart(w))
          /\ WF_vars(BrokerDeliver(w))
          /\ WF_vars(\E o \in WorkerOutcomes : ProcessMessage(w, o))

TypeOK ==
    /\ redis_client \in BOOLEAN
    /\ \A k \in Keys : idem[k] \in {"absent", "set", "ttl"}
    /\ \A c \in Calls : call[c].pc \in {"idle", "check", "expire", "publish", "done", "killed"}
    /\ \A w \in Workers : wstate[w] \in {"down", "consuming"}
\* =================================================================== claims
Done(c) == call[c].pc = "done"

\* a submit that passed validation and has its answer
Answered(c) == Done(c) /\ call[c].resp # HTTP_400_BAD_REQUEST

\* the messages call c handed to the broker
PublishedBy(c) == {m \in published : m.msg = c}

\* the submits with request_id k that are past the test-and-set
PastCheck(k) ==
    {c \in Calls : /\ call[c].request_id = k
                   /\ \/ call[c].pc \in {"expire", "publish"}
                      \/ Answered(c)}

\* those of them whose test-and-set reported the key as new
Winners(k) ==
    {c \in PastCheck(k) :
        \/ call[c].pc \in {"expire", "publish"}
        \/ call[c].resp \in {HTTP_202_ACCEPTED, HTTP_500_INTERNAL_SERVER_ERROR}}

\* C1 as stated: of N >= 2 answered submits with one request_id whose key has
\* not expired, exactly one published a message and was answered 202, and
\* every other was answered 200 and published nothing (read with the store
\* client initialised, without which there is no key).
Claim_C1 ==
    redis_client =>
    \A k \in Keys :
        LET S == {c \in Calls : Answered(c) /\ call[c].request_id = k} IN
        (Cardinality(S) >= 2 /\ ~expired[k]) =>
            \E c \in S :
                /\ call[c].resp = HTTP_202_ACCEPTED
                /\ PublishedBy(c) # {}
                /\ \A d \in S \ {c} : /\ call[d].resp = HTTP_200_OK
                                      /\ PublishedBy(d) = {}

\* C1 amended: with the store client initialised and the key not expiring,
\* exactly one of the submits with one request_id wins the test-and-set; it
\* alone publishes, one message and answer 202 if its publish succeeds,
\* nothing and answer 500 if it fails; every other is answered 200 and
\* publishes nothing.
Thm_C1 ==
    redis_client =>
        \A k \in Keys :
            ~expired[k] =>
                /\ PastCheck(k) # {} => Cardinality(Winners(k)) = 1
                /\ \A c \in PastCheck(k) :
                      /\ Cardinality(PublishedBy(c)) <= 1
                      /\ (c \in Winners(k) /\ Done(c)) =>
                            (call[c].resp = HTTP_202_ACCEPTED <=> PublishedBy(c) # {})
                      /\ ~Done(c) => PublishedBy(c) = {}
                      /\ c \notin Winners(k) =>
                            /\ call[c].resp = HTTP_200_OK
                            /\ PublishedBy(c) = {}

\* two submits raced on one request_id: one accepted, the other duplicate
Witness_C1 ==
    /\ redis_client
    /\ \E k \in Keys :
          /\ ~expired[k]
          /\ \E c, d \in Calls :
                /\ c # d
                /\ call[c].request_id = k /\ call[d].request_id = k
                /\ call[c].resp = HTTP_202_ACCEPTED /\ PublishedBy(c) # {}
                /\ call[d].resp = HTTP_200_OK

\* no other submit shares the request_id of c
DistinctId(c) ==
    \A d \in Calls \ {c} : call[d].request_id # call[c].request_id

\* the published messages that carry request_id k
Carrying(k) == {m \in published : m.request_id = k}

\* C2 as stated: every valid submit whose request_id no other submit shares
\* publishes exactly one message carrying its request_id and is answered 202.
Claim_C2 ==
    \A c \in Calls :
        (Answered(c) /\ DistinctId(c)) =>
            /\ call[c].resp = HTTP_202_ACCEPTED
            /\ Cardinality(Carrying(call[c].request_id)) = 1
            /\ Carrying(call[c].request_id) = PublishedBy(c)

\* C2 amended: such a submit is answered 202 with exactly one message
\* published, carrying its own request_id, when its publish succeeds, and 500
\* with nothing published when its publish fails; it is never answered
\* duplicate and nothing is published twice.
Thm_C2 ==
    \A c \in Calls :
        (Answered(c) /\ DistinctId(c)) =>
            /\ call[c].resp \in {HTTP_202_ACCEPTED, HTTP_500_INTERNAL_SERVER_ERROR}
            /\ Carrying(call[c].request_id) = PublishedBy(c)
            /\ call[c].resp = HTTP_202_ACCEPTED =>
                  Cardinality(Carrying(call[c].request_id)) = 1
            /\ call[c].resp = HTTP_500_INTERNAL_SERVER_ERROR =>
                  Carrying(call[c].request_id) = {}

\* two submits with different request_ids, one of them assigned by the
\* gateway, both accepted
Witness_C2 ==
    \E c, d \in Calls :
        /\ c # d
        /\ Answered(c) /\ Answered(d)
        /\ DistinctId(c) /\ DistinctId(d)
        /\ call[c].supplied = NoRequestId /\ call[d].supplied # NoRequestId
        /\ call[c].resp = HTTP_202_ACCEPTED /\ call[d].resp = HTTP_202_ACCEPTED
        /\ Cardinality(Carrying(call[c].request_id)) = 1

\* C3: with the store client initialised, once a submit that won the
\* test-and-set has been answered 500 and while its key has not expired, the
\* key is still set, every other submit with that request_id that is past
\* the test-and-set has been answered 200, and no message carrying that
\* request_id has been published.
Thm_C3 ==
    redis_client =>
        \A c \in Calls :
            LET k == call[c].request_id IN
            (Done(c) /\ call[c].resp = HTTP_500_INTERNAL_SERVER_ERROR /\ ~expired[k]) =>
                /\ idem[k] # "absent"
                /\ Carrying(k) = {}
                /\ \A d \in PastCheck(k) \ {c} : call[d].resp = HTTP_200_OK

\* a publish failed, and a retry with the same request_id was answered 200
Witness_C3 ==
    /\ redis_client
    /\ \E c, d \in Calls :
          /\ c # d
          /\ call[c].resp = HTTP_500_INTERNAL_SERVER_ERROR
          /\ call[d].resp = HTTP_200_OK
          /\ call[c].request_id = call[d].request_id
          /\ ~expired[call[c].request_id]
          /\ Carrying(call[c].request_id) = {}
\* ---------------------------------------------------------- broker and workers
InWorkingQueue(c, t) == \E i \in 1..Len(queue[t]) : queue[t][i].msg = c
InDeadLetterQueue(c, t) == \E i \in 1..Len(dlq[t]) : dlq[t][i] = c
HeldBy(c, w) == \E i \in 1..Len(unacked[w]) : unacked[w][i].msg = c

\* message c has been taken from the working queue of type t
Consumed(c, t) ==
    \/ \E w \in Workers : WorkerType(w) = t /\ HeldBy(c, w)
    \/ c \in acked
    \/ InDeadLetterQueue(c, t)

\* C4 as stated: the message of every submit answered 202 is in the working
\* queue of its notification_type or has been consumed from it.
Claim_C4 ==
    \A c \in Calls :
        call[c].resp = HTTP_202_ACCEPTED =>
            \/ InWorkingQueue(c, call[c].notification_type)
            \/ Consumed(c, call[c].notification_type)

\* C5 as stated: no message is handed to process_message more than twice.
Claim_C5 == \A c \in Calls : deliveries[c] <= 2

Failed(a) == a.outcome \notin {"none", "ok", "opted_out"}

\* C6 as stated: a run of process_message that fails answers the delivery
\* with a nack, without requeue if it was redelivered and with requeue if not.
Claim_C6 ==
    Failed(last) =>
        last.answer = IF last.redelivered THEN "nack_no_requeue" ELSE "nack_requeue"

\* C7 as stated, for the delivery C6 has nacked: after a failed run on a
\* redelivered message the message is in the dead-letter queue of its type
\* and in no working queue.
Claim_C7 ==
    (Failed(last) /\ last.redelivered) =>
        /\ \E t \in Types : /\ call[last.msg].notification_type = t
                            /\ InDeadLetterQueue(last.msg, t)
        /\ \A t \in Types : ~InWorkingQueue(last.msg, t)

\* C8 as stated: every message in a working queue is eventually acknowledged
\* or dead-lettered.
Claim_C8 ==
    \A c \in Calls :
        (\E t \in Types : InWorkingQueue(c, t))
            ~> (c \in acked \/ \E t \in Types : InDeadLetterQueue(c, t))

\* C9: an ack is the answer only of a run in which the provider call returned
\* before basic_ack was called and nothing raised; a failed run never acks;
\* an acknowledged message is in no working queue, in no dead-letter queue
\* and in no worker's hands.
Thm_C9 ==
    /\ last.answer = "ack" =>
          /\ last.outcome \in {"ok", "opted_out"}
          /\ ProviderInvoked(last.outcome)
          /\ \E i, j \in 1..Len(HandlerTrace(last.outcome)) :
                /\ i < j
                /\ HandlerTrace(last.outcome)[i] = "send"
                /\ HandlerTrace(last.outcome)[j] = "basic_ack"
          /\ last.msg \in acked
    /\ Failed(last) => last.answer # "ack" /\ last.msg \notin acked
    /\ \A c \in acked :
          /\ \A t \in Types : ~InWorkingQueue(c, t) /\ ~InDeadLetterQueue(c, t)
          /\ \A w \in Workers : ~HeldBy(c, w)

\* a redelivered message was delivered and acknowledged while another
\* message is still waiting
Witness_C9 ==
    /\ last.answer = "ack"
    /\ last.redelivered
    /\ last.msg \in acked
    /\ \E c \in Calls \ acked : \E t \in Types : InWorkingQueue(c, t)

\* C10: every worker holds at most one unacknowledged delivery.
Thm_C10 == \A w \in Workers : Len(unacked[w]) <= 1

\* two workers consume the same queue, each holds one unacknowledged message
Witness_C10 ==
    \E v, w \in Workers :
        /\ v # w
        /\ WorkerType(v) = WorkerType(w)
        /\ wstate[v] = "consuming" /\ wstate[w] = "consuming"
        /\ Len(unacked[v]) = 1 /\ Len(unacked[w]) = 1

\* ------------------------------------------------- the handler's answers
TypeOf(c) == call[c].notification_type

Answers == {"ack", "nack_requeue", "nack_no_requeue"}

\* C11 as stated: every run of process_message answers its delivery with
\* exactly one basic_ack or basic_nack before it returns, on every path.
Claim_C11 == last.outcome # "none" => last.answer \in Answers

Claim_C13 ==
    last.outcome = "template_mismatch" =>
        /\ ~ProviderInvoked(last.outcome)
        /\ InDeadLetterQueue(last.msg, TypeOf(last.msg))
        /\ ~InWorkingQueue(last.msg, TypeOf(last.msg))

\* C13, amended: a message whose template is of another channel is not sent
\* to the provider in that attempt and is handled as any failure: it is not
\* acknowledged, and on its first delivery it goes back to the working queue
\* for a further attempt instead of being dead-lettered.
Thm_C13 ==
    last.outcome = "template_mismatch" =>
        /\ ~ProviderInvoked(last.outcome)
        /\ last.answer # "ack"
        /\ ~last.redelivered =>
              /\ \E i \in 1..Len(queue[TypeOf(last.msg)]) :
                    queue[TypeOf(last.msg)][i] =
                        [msg |-> last.msg, redelivered |-> TRUE]
              /\ ~InDeadLetterQueue(last.msg, TypeOf(last.msg))

\* a first delivery has just met a template of the other channel
Witness_C13 ==
    /\ last.outcome = "template_mismatch"
    /\ ~last.redelivered
    /\ deliveries[last.msg] = 1

\* C14 as stated: a message whose processing fails with an unexpected error
\* (a body that is not JSON) is nacked without requeue on whichever delivery,
\* and is never put back in the working queue.
Claim_C14 ==
    last.outcome = "parse_error" =>
        /\ last.answer = "nack_no_requeue"
        /\ ~InWorkingQueue(last.msg, TypeOf(last.msg))

\* C14, amended: a message whose body cannot be parsed is handled as any
\* failure: it is not acknowledged, and on its first delivery it is put back
\* in the working queue, not dead-lettered.
Thm_C14 ==
    last.outcome = "parse_error" =>
        /\ last.answer \notin {"ack", "nack_no_requeue"}
        /\ last.msg \notin acked
        /\ ~last.redelivered =>
              /\ InWorkingQueue(last.msg, TypeOf(last.msg))
              /\ ~InDeadLetterQueue(last.msg, TypeOf(last.msg))

\* the push worker has just failed to parse a body on its first delivery
Witness_C14 ==
    /\ last.outcome = "parse_error"
    /\ ~last.redelivered
    /\ TypeOf(last.msg) = "push"
    /\ InWorkingQueue(last.msg, "push")

\* C15 as stated: a worker that has run process_message, whatever the run
\* met, is still consuming afterwards.
Claim_C15 ==
    [][\A w \in Workers :
          (\E o \in Outcomes \cup PreferenceOutcomes : ProcessMessage(w, o))
              => wstate'[w] = "consuming"]_vars

\* ------------------------------------------------------ the circuit breaker
NoCallRunning == \A p \in Callers : inflight[p].pc = "idle"

\* the latest step was a call arriving at a breaker it found OPEN
ArrivedAtOpen ==
    /\ cbevent.kind \in {"rejected", "admitted"}
    /\ cbevent.before.state = "OPEN"

\* time between the recorded last failure and that call
Elapsed == cbevent.at - cbevent.before.last_failure_time

\* C16: after failure_threshold failures of the wrapped function in a row the
\* breaker is OPEN, and a call that arrives before recovery_timeout has
\* elapsed since last_failure_time is rejected: the wrapped function is not
\* invoked and failure_count and last_failure_time stay as they were.
Thm_C16 ==
    /\ (streak >= failure_threshold /\ NoCallRunning) => state = "OPEN"
    /\ (ArrivedAtOpen /\ Elapsed < recovery_timeout) => cbevent.kind = "rejected"
    /\ cbevent.kind = "rejected" =>
          /\ NoCallRunning
          /\ Snapshot = cbevent.before
          /\ state = "OPEN"

\* a call was rejected some time after the failure that opened the breaker
Witness_C16 ==
    /\ cbevent.kind = "rejected"
    /\ streak = failure_threshold
    /\ failure_count = failure_threshold
    /\ Elapsed > 0

\* C17 as stated: a success while CLOSED resets failure_count, and the
\* breaker leaves CLOSED for OPEN only after failure_threshold failures in a
\* row.
Claim_C17 ==
    /\ (cbevent.kind = "success" /\ cbevent.before.state = "CLOSED") =>
          failure_count = 0
    /\ (cbevent.kind = "failure" /\ cbevent.before.state = "CLOSED"
            /\ state = "OPEN") => streak >= failure_threshold

\* C18 as stated: a call that finds the breaker OPEN when the time since
\* last_failure_time has reached recovery_timeout moves it to HALF-OPEN and
\* invokes the wrapped function; nothing else moves it out of OPEN.
Claim_C18 ==
    /\ (ArrivedAtOpen /\ Elapsed >= recovery_timeout) =>
          /\ cbevent.kind = "admitted"
          /\ state = "HALF-OPEN"
    /\ (cbevent.before.state = "OPEN" /\ state # "OPEN") =>
          cbevent.kind = "admitted"

\* C18, amended: a call that finds the breaker OPEN moves it to HALF-OPEN and
\* invokes the wrapped function exactly when the time since
\* last_failure_time exceeds recovery_timeout (at exactly recovery_timeout it
\* is still rejected); nothing but such a call moves the breaker out of OPEN.
Thm_C18 ==
    /\ ArrivedAtOpen =>
          (cbevent.kind = "admitted" <=> Elapsed > recovery_timeout)
    /\ (ArrivedAtOpen /\ cbevent.kind = "admitted") =>
          /\ state = "HALF-OPEN"
          /\ \E p \in Callers :
                /\ inflight[p].pc = "running"
                /\ inflight[p].current_time = cbevent.at
    /\ (cbevent.before.state = "OPEN" /\ state # "OPEN") =>
          cbevent.kind = "admitted"

\* a call arrived one tick after the timeout and became the trial call
Witness_C18 ==
    /\ ArrivedAtOpen
    /\ Elapsed = recovery_timeout + 1
    /\ state = "HALF-OPEN"
    /\ ~NoCallRunning

\* C19: a trial call that succeeds closes the breaker with failure_count 0; a
\* trial call that fails opens it again with last_failure_time set anew to
\* the time of that call; and a trial call runs only when more than
\* recovery_timeout has passed since last_failure_time.
Thm_C19 ==
    /\ (cbevent.kind = "success" /\ cbevent.before.state = "HALF-OPEN") =>
          /\ state = "CLOSED"
          /\ failure_count = 0
    /\ (cbevent.kind = "failure" /\ cbevent.before.state = "HALF-OPEN") =>
          /\ state = "OPEN"
          /\ last_failure_time = cbevent.at
          /\ last_failure_time > cbevent.before.last_failure_time
    /\ state = "HALF-OPEN" => now - last_failure_time > recovery_timeout

\* a second trial call is admitted after the first trial call failed
Witness_C19 ==
    /\ ArrivedAtOpen
    /\ cbevent.kind = "admitted"
    /\ cbevent.before.failure_count > failure_threshold

\* -------------------------------------------------------- the retry wrapper
\* C20: for a wrapped function that fails K times with a retryable error and
\* then succeeds, the wrapper returns after exactly K+1 invocations if
\* K <= retries, and raises the error of the last invocation after exactly
\* retries+1 invocations if K > retries.
Thm_C20 ==
    /\ (retry.pc = "returned" /\ retry.then = "value") =>
          /\ retry.failing <= retries
          /\ retry.invoked = retry.failing + 1
    /\ (retry.pc \in {"returned", "raised"} /\ retry.then = "value"
            /\ retry.failing <= retries) => retry.pc = "returned"
    /\ (retry.pc = "raised" /\ retry.then = "value") =>
          /\ retry.failing > retries
          /\ retry.invoked = retries + 1
          /\ retry.error = retry.invoked
    /\ retry.pc \in {"calling", "sleeping"} =>
          /\ retry.invoked <= retry.failing
          /\ retry.invoked <= retries

\* the wrapper gave up on a function that would have succeeded two
\* invocations later
Witness_C20 ==
    /\ retry.pc = "raised"
    /\ retry.then = "value"
    /\ retry.failing = retries + 2
    /\ retry.invoked = retries + 1

\* the call ended with the error of a class the wrapper does not retry
Propagated ==
    /\ retry.pc = "raised"
    /\ retry.then = "error"
    /\ retry.error = retry.failing + 1

\* C21: an error of a class outside the retryable set leaves the wrapper at
\* once: the invocation that raised it is the last one, no sleep follows it
\* and it is not counted as a retry; raised by the first invocation, it
\* reaches the caller after exactly one invocation and no sleep.
Thm_C21 ==
    /\ (retry.then = "error" /\ retry.failing <= retries
            /\ retry.pc \in {"returned", "raised"}) => Propagated
    /\ retry.then = "error" => retry.invoked <= retry.failing + 1
    /\ Propagated =>
          /\ retry.invoked = retry.failing + 1
          /\ Len(retry.slept) = retry.failing
          /\ retry.retry_count = retry.failing
    /\ (Propagated /\ retry.failing = 0) =>
          /\ retry.invoked = 1
          /\ retry.slept = <<>>

\* the first invocation raised such an error
Witness_C21 ==
    /\ Propagated
    /\ retry.failing = 0
    /\ retry.invoked = 1
    /\ retry.slept = <<>>

RECURSIVE Pow2(_)
Pow2(n) == IF n = 0 THEN 1 ELSE 2 * Pow2(n - 1)

\* d_i = backoff_in_seconds * 2^(i-1)
Nominal(i) == backoff_in_seconds * Pow2(i - 1)

\* C22: the i-th wait is min(d_i + jitter, max_backoff) for a jitter between
\* 0 and a tenth of d_i, no wait exceeds max_backoff, there are at most
\* retries waits, and no wait follows the last invocation.
Thm_C22 ==
    /\ \A i \in 1..Len(retry.slept) :
          /\ retry.slept[i] <= max_backoff
          /\ \E jitter \in 0..Nominal(i) :
                /\ 10 * jitter <= Nominal(i)
                /\ retry.slept[i] =
                      IF Nominal(i) + jitter < max_backoff
                        THEN Nominal(i) + jitter ELSE max_backoff
    /\ Len(retry.slept) <= retries
    /\ retry.pc \in {"returned", "raised"} =>
          Len(retry.slept) = retry.invoked - 1
    /\ retry.pc \in {"calling", "sleeping"} =>
          Len(retry.slept) = retry.invoked

\* the retries are used up: the first wait had a jitter, the last was capped
Witness_C22 ==
    /\ retry.pc = "raised"
    /\ Len(retry.slept) = retries
    /\ retry.slept[1] > backoff_in_seconds
    /\ retry.slept[retries] = max_backoff
    /\ Nominal(retries) > max_backoff

\* C23: in the email worker and in the push worker alike, a run of
\* process_message ends on a user fetch or template fetch that raises only
\* after the fetch was invoked retries + 1 times (the first try and the
\* bounded retries with backoff)
FetchFailed(a) == a.outcome \in {"user_fetch_failed", "template_fetch_failed"}
Claim_C23 ==
    FetchFailed(last) =>
        FetchInvocations(call[last.msg].notification_type) = retries + 1

\* C24: once the provider has failed failure_threshold times in a row in a
\* worker, a delivery step that begins before recovery_timeout has elapsed
\* since the latest of these failures does not invoke the provider
Claim_C24 ==
    ~ /\ provider.invoked
      /\ provider.before.failures >= failure_threshold
      /\ provider.at - provider.before.failed_at < recovery_timeout

Claim_C26 ==
    \A k \in Keys :
        idem[k] = "set" =>
            \E c \in Calls : call[c].pc = "expire" /\ call[c].request_id = k

\* C27: a submit whose request_id is already present is answered 200 and
\* changes nothing: no message published or queued, the key's value and
\* remaining expiry as they were, nothing else written
DuplicateStep(c) == call[c].pc = "check" /\ call'[c].pc = "done"
Thm_C27 ==
    [][\A c \in Calls :
          DuplicateStep(c) =>
              /\ call'[c].resp = HTTP_200_OK
              /\ idem' = idem /\ expired' = expired
              /\ published' = published /\ dropped' = dropped
              /\ queue' = queue /\ dlq' = dlq]_vars

\* a duplicate answered while the first submit has not set the expiry yet
Witness_C27 ==
    \E c, d \in Calls :
        /\ Done(c) /\ call[c].resp = HTTP_200_OK
        /\ call[d].pc = "expire"
        /\ call[d].request_id = call[c].request_id
        /\ idem[call[c].request_id] = "set"

\* C28: a submit that fails validation is answered 400, gets no request_id
\* of its own into the store and publishes nothing; a later valid submit
\* with the request_id it carried is the first to claim that key, so it is
\* accepted as new
Rejected(c) == Done(c) /\ call[c].resp = HTTP_400_BAD_REQUEST
Thm_C28 ==
    /\ \A c \in Calls :
          Rejected(c) => /\ PublishedBy(c) = {}
                         /\ call[c].request_id = NoRequestId
    /\ \A k \in Keys :
          (idem[k] # "absent" \/ expired[k]) => PastCheck(k) # {}
    /\ \A k \in Keys : \A c \in PastCheck(k) :
          (\A d \in PastCheck(k) : d = c) => c \in Winners(k)

Witness_C28 ==
    \E c, d \in Calls :
        /\ Rejected(c)
        /\ call[c].supplied # NoRequestId
        /\ call[d].request_id = call[c].supplied
        /\ call[d].resp = HTTP_202_ACCEPTED
        /\ redis_client


\* the key a call of the status endpoint names, when it is one of a record
EventKey == <<status_event.notification_type, status_event.notification_id>>
GotStatus == status_event.op = "get_status" /\ EventKey \in StatusKeys

\* C29: after two update_status calls for one key, the first of them
\* answered 200, get_status returns one record whose status, timestamp and
\* error are those of the later call; nothing of the earlier write survives
Claim_C29 ==
    (/\ GotStatus
     /\ redis_client
     /\ posted[EventKey].count >= 2
     /\ posted[EventKey].confirmed # NoRecord)
        => /\ status_event.code = HTTP_200_OK
           /\ status_event.data = posted[EventKey].latest

\* C30: get_status answers 200 with the written record when update_status
\* returned 200 for the key within the last 24 hours, and 404 when the key
\* was never written or its latest write is more than 24 hours old
Claim_C30 ==
    GotStatus =>
        IF posted[EventKey].confirmed # NoRecord
          THEN /\ status_event.code = HTTP_200_OK
               /\ status_event.data = posted[EventKey].confirmed
          ELSE status_event.code = HTTP_404_NOT_FOUND


\* whether pattern occurs in text
Occurs(text, pattern) ==
    \E i \in 1..(Len(text) - Len(pattern) + 1) :
        SubSeq(text, i, i + Len(pattern) - 1) = pattern

\* text with each of its tokens {{k}}, k a key of d, replaced by the value
\* of k, and every other character as it is
RECURSIVE EachTokenReplaced(_, _)
EachTokenReplaced(text, d) ==
    IF text = <<>> THEN <<>>
    ELSE LET hits == {i \in 1..Len(d) :
                         /\ Len(text) >= Len(Placeholder(d[i].key))
                         /\ SubSeq(text, 1, Len(Placeholder(d[i].key)))
                               = Placeholder(d[i].key)}
         IN IF hits # {}
              THEN LET i == CHOOSE i \in hits : TRUE
                   IN d[i].value \o
                      EachTokenReplaced(
                          SubSeq(text, Len(Placeholder(d[i].key)) + 1, Len(text)), d)
              ELSE <<Head(text)>> \o EachTokenReplaced(Tail(text), d)

Returned(fn) == render.pc = "returned" /\ render.fn = fn

\* C31: _substitute_variables(text, variables) returns text with every
\* occurrence of {{k}} replaced by str(variables[k]) for every key k of
\* variables and everything else unchanged: other tokens stay literal, keys
\* without a token change nothing
Claim_C31 ==
    Returned("_substitute_variables") =>
        render.result = EachTokenReplaced(render.content, render.data)

\* C35: render_template(content, data) with two or more keys in data, the
\* placeholder of each occurring in content, returns a text in which none of
\* these placeholders remains
Claim_C35 ==
    (/\ Returned("render_template")
     /\ Len(render.data) >= 2
     /\ \A k \in DictKeys(render.data) : Occurs(render.content, Placeholder(k)))
        => \A k \in DictKeys(render.data) : ~Occurs(render.result, Placeholder(k))

\* C36 as stated: in the text a worker hands to the provider, every token
\* {{key}} of the template whose key is not among the message's variables is
\* left literal, the key name included
Claim_C36 ==
    Returned("process_message") =>
        \A k \in TokenKeys :
            (Occurs(render.content, Placeholder(k)) /\ k \notin DictKeys(render.data))
                => Occurs(render.result, Placeholder(k))

\* C36 amended: every token of the template whose key is neither name nor
\* among the message's variables is left literal; a token {{name}} of the
\* template is replaced even when the message has no variable name, by the
\* first and last name of the user record
Thm_C36 ==
    Returned("process_message") =>
        /\ \A k \in TokenKeys \ {"name"} :
              (Occurs(render.content, Placeholder(k)) /\ k \notin DictKeys(render.data))
                  => Occurs(render.result, Placeholder(k))
        /\ (Occurs(render.content, Placeholder("name"))
               /\ "name" \notin DictKeys(render.data))
              => Occurs(render.result, FullName(UserInfo))

\* a template with {{name}} and {{a}}, rendered for a message whose
\* variables have neither key
Witness_C36 ==
    /\ Returned("process_message")
    /\ Occurs(render.content, Placeholder("name"))
    /\ Occurs(render.content, Placeholder("a"))
    /\ render.data # <<>>
    /\ DictKeys(render.data) \cap {"name", "a"} = {}
    /\ Occurs(render.result, Placeholder("a"))
    /\ Occurs(render.result, FullName(UserInfo))


\* a dict with the same items in the opposite iteration order
Reversed(d) == [i \in 1..Len(d) |-> d[Len(d) + 1 - i]]

\* C38: the result of _substitute_variables is the same for every iteration
\* order of the variables, and a value put in for a token of the template is
\* not rewritten afterwards: a value holding the token of another key is in
\* the output as it is
Claim_C38 ==
    Returned("_substitute_variables") =>
        /\ render.result = substitute_variables(render.content, Reversed(render.data))
        /\ \A i \in 1..Len(render.data) :
              (/\ Occurs(render.content, Placeholder(render.data[i].key))
               /\ \E k \in DictKeys(render.data) \ {render.data[i].key} :
                     Occurs(render.data[i].value, Placeholder(k)))
                  => Occurs(render.result, render.data[i].value)


\* every message the broker routed to a queue is somewhere: in its working
\* queue, in a worker's hands, acknowledged or dead-lettered
Conserved ==
    \A m \in published :
        m.msg \notin dropped =>
            \/ m.msg \in acked
            \/ \E t \in Types : InWorkingQueue(m.msg, t) \/ InDeadLetterQueue(m.msg, t)
            \/ \E w \in Workers : HeldBy(m.msg, w)

\* worker w stops consuming in this step
GoesDown(w) == wstate[w] = "consuming" /\ wstate'[w] = "down"

\* C32: a worker that shuts down while it holds an unacknowledged message
\* leaves that message in its working queue, marked redelivered, for another
\* worker; the shutdown acknowledges and dead-letters nothing, and no
\* routed message is ever lost
Thm_C32 ==
    /\ []Conserved
    /\ [][\A w \in Workers :
             GoesDown(w) =>
                 /\ \A i \in 1..Len(unacked[w]) :
                       \E j \in 1..Len(queue'[WorkerType(w)]) :
                           /\ queue'[WorkerType(w)][j].msg = unacked[w][i].msg
                           /\ queue'[WorkerType(w)][j].redelivered
                 /\ unacked'[w] = <<>>
                 /\ acked' = acked
                 /\ dlq' = dlq]_vars

\* a worker was stopped inside its callback; the message is back in the
\* queue, unacknowledged, and another worker of the type is consuming
Witness_C32 ==
    /\ last.outcome = "interrupted"
    /\ InWorkingQueue(last.msg, TypeOf(last.msg))
    /\ last.msg \notin acked
    /\ \E v, w \in Workers :
          /\ v # w /\ WorkerType(v) = WorkerType(w) /\ WorkerType(v) = TypeOf(last.msg)
          /\ wstate[v] = "down" /\ wstate[w] = "consuming"


\* C33: HALF-OPEN admits one trial call: while the breaker is HALF-OPEN, the
\* outcome of its trial not yet recorded, no further call reaches the
\* wrapped function
Claim_C33 == ~(cbevent.kind = "admitted" /\ cbevent.before.state = "HALF-OPEN")

\* C34: the signal of a call rejected by an OPEN breaker is of a kind of its
\* own: some except clause catches it and catches no error of the wrapped
\* function, and the retry wrapper does not take it for a retryable failure
Claim_C34 ==
    cbevent.kind = "rejected" =>
        /\ \E cls \in Bases(CircuitOpenSignal) :
              \A e \in FunctionErrors : cls \notin Bases(e)
        /\ Bases(CircuitOpenSignal) \cap RetryExceptions = {}

\* C37: whatever calls succeeded, failed or were rejected, state is CLOSED,
\* OPEN or HALF-OPEN; CLOSED goes with failure_count < failure_threshold,
\* OPEN and HALF-OPEN with failure_count >= failure_threshold
Thm_C37 ==
    /\ state \in {"CLOSED", "OPEN", "HALF-OPEN"}
    /\ state = "CLOSED" => failure_count < failure_threshold
    /\ state \in {"OPEN", "HALF-OPEN"} => failure_count >= failure_threshold

\* a trial call failed while another call was running: the breaker is OPEN
\* again with failure_count above the threshold
Witness_C37 ==
    /\ cbevent.kind = "failure"
    /\ cbevent.before.state = "HALF-OPEN"
    /\ state = "OPEN"
    /\ failure_count > failure_threshold
    /\ \E p \in Callers : inflight[p].pc = "running"

\* C39 as stated: with the store client absent, every valid submit that has
\* been answered published one message and none was answered duplicate, so k
\* submits with one request_id publish k messages.
Claim_C39 ==
    ~redis_client =>
        \A c \in Calls :
            Answered(c) =>
                /\ call[c].resp # HTTP_200_OK
                /\ Cardinality(PublishedBy(c)) = 1

\* C39 amended: with the store client absent no key is ever stored and no
\* submit is answered duplicate; a submit is answered 202 with one message
\* published when its publish succeeds and 500 with none when it fails, so k
\* submits with one request_id whose publishes succeed publish k messages.
Thm_C39 ==
    ~redis_client =>
        /\ \A k \in Keys : idem[k] = "absent"
        /\ \A c \in Calls :
              Answered(c) =>
                /\ call[c].resp \in {HTTP_202_ACCEPTED,
                                      HTTP_500_INTERNAL_SERVER_ERROR}
                /\ call[c].resp = HTTP_202_ACCEPTED =>
                      /\ Cardinality(PublishedBy(c)) = 1
                      /\ \A m \in PublishedBy(c) :
                            m.request_id = call[c].request_id
                /\ call[c].resp = HTTP_500_INTERNAL_SERVER_ERROR =>
                      PublishedBy(c) = {}

\* without a client, two submits carrying the same supplied request_id are
\* both accepted and two messages carry that request_id
Witness_C39 ==
    /\ ~redis_client
    /\ \E c, d \in Calls :
          /\ c # d
          /\ Answered(c) /\ Answered(d)
          /\ call[c].supplied # NoRequestId
          /\ call[c].supplied = call[d].supplied
          /\ call[c].resp = HTTP_202_ACCEPTED
          /\ call[d].resp = HTTP_202_ACCEPTED
          /\ Cardinality(Carrying(call[c].request_id)) = 2

\* C40: a step that changes the status store changes nothing of requests,
\* queues and workers and is an update_status or an expiry; and get_status
\* answers 404 for a key no caller has posted a status for, whatever became
\* of the request.
StatusStep ==
    status_store' # status_store =>
        /\ pipelineVars' = pipelineVars
        /\ status_event'.op \in {"update_status", "expired"}

Thm_C40 ==
    /\ [](GotStatus /\ status_event.notification_id # NoNotificationId
                    /\ posted[EventKey].count = 0
              => status_event.code = HTTP_404_NOT_FOUND)
    /\ [][StatusStep]_vars

\* with the store client initialised, a request was accepted, its message
\* delivered and acknowledged, nobody has posted a status, and get_status
\* has just answered 404
Witness_C40 ==
    /\ redis_client
    /\ \E c \in Calls :
          /\ Done(c)
          /\ call[c].resp = HTTP_202_ACCEPTED
          /\ c \in acked
    /\ \E c \in Calls : Done(c) /\ call[c].resp = HTTP_200_OK
    /\ GotStatus
    /\ EventKey = <<"email", "n-1">>
    /\ posted[EventKey].count = 0
    /\ status_event.code = HTTP_404_NOT_FOUND

====
